---- MODULE Spec2Model ----
(***************************************************************************)
(* Model of filamentseek-model: the Product record, its open-set           *)
(* enumerations (FilamentMaterial, Retailer, FilamentDiameter), the        *)
(* ProductRequest / ProductResponse projections and the derived-field      *)
(* hook Product::post_update_hook (src/src/product.rs), together with the  *)
(* store client it obtains from surrealdb_client (src/src/lib.rs).         *)
(***************************************************************************)
EXTENDS Integers, Sequences, FiniteSets, TLC

(***************************************************************************)
(* Unsigned integers.  Cents wraps a u32 and Grams a u16.  A u32 is held   *)
(* as two 16-bit limbs <<hi, lo>> so that the whole u32 range, u32::MAX    *)
(* included, is representable; a u16 is a plain integer.                   *)
(***************************************************************************)
RECURSIVE Pow2(_)
Pow2(n) == IF n = 0 THEN 1 ELSE 2 * Pow2(n - 1)

Limb == 65536

Cents(n) == <<n \div Limb, n % Limb>>

Grams(n) == n

U32_MAX == <<Limb - 1, Limb - 1>>

RECURSIVE BitLen(_)
BitLen(n) == IF n = 0 THEN 0 ELSE 1 + BitLen(n \div 2)

(***************************************************************************)
(* IEEE-754 binary32 values that line 37 of product.rs can produce: zero,  *)
(* positive normal numbers m * 2^e with 2^23 <= m < 2^24, +infinity, NaN.  *)
(* Every operation rounds to nearest, ties to even, as the hardware does.  *)
(***************************************************************************)
MantBits == 24

F32Zero == [k |-> "fin", m |-> 0, e |-> 0]

F32Inf == [k |-> "inf", m |-> 0, e |-> 0]

F32NaN == [k |-> "nan", m |-> 0, e |-> 0]

\* q * 2^e with q < 2^24, one step after dropping bits: round to nearest even
\* on the dropped part (rem out of den), then renormalise a carry-out.
RoundEven(q, rem, den, e) ==
    LET up == (2 * rem > den) \/ (2 * rem = den /\ q % 2 = 1)
        q1 == IF up THEN q + 1 ELSE q
    IN  IF q1 = Pow2(MantBits)
        THEN [k |-> "fin", m |-> Pow2(MantBits - 1), e |-> e + 1]
        ELSE [k |-> "fin", m |-> q1, e |-> e]

\* a non-negative integer n < 2^31 as f32
IntAsF32(n) ==
    IF n = 0 THEN F32Zero
    ELSE LET len == BitLen(n)
         IN  IF len <= MantBits
             THEN [k |-> "fin", m |-> n * Pow2(MantBits - len), e |-> len - MantBits]
             ELSE LET s == len - MantBits
                  IN  RoundEven(n \div Pow2(s), n % Pow2(s), Pow2(s), s)

\* `self.weight.0 as f32`: every u16 is exactly representable
U16AsF32(w) == IntAsF32(w)

\* `self.price.0 as f32`: a u32 of more than 24 bits is rounded
U32AsF32(c) ==
    LET hi == c[1]
        lo == c[2]
    IN  IF hi < Pow2(15) THEN IntAsF32(hi * Limb + lo)
        ELSE \* 32 significant bits: keep the top 24, round on the low 8
             RoundEven(hi * 256 + lo \div 256, lo % 256, 256, 8)

\* bits of the quotient num/den below the leading one, by long division
RECURSIVE LongDiv(_, _, _, _)
LongDiv(q, rem, den, bits) ==
    IF bits = 0 THEN <<q, rem>>
    ELSE IF 2 * rem >= den
         THEN LongDiv(2 * q + 1, 2 * rem - den, den, bits - 1)
         ELSE LongDiv(2 * q, 2 * rem, den, bits - 1)

\* a / b
F32Div(a, b) ==
    IF a.k = "nan" \/ b.k = "nan" THEN F32NaN
    ELSE IF a.k = "inf" THEN (IF b.k = "inf" THEN F32NaN ELSE F32Inf)
    ELSE IF b.k = "inf" THEN F32Zero
    ELSE IF b.m = 0 THEN (IF a.m = 0 THEN F32NaN ELSE F32Inf)
    ELSE IF a.m = 0 THEN F32Zero
    ELSE IF a.m >= b.m
         THEN LET r == LongDiv(1, a.m - b.m, b.m, MantBits - 1)
              IN  RoundEven(r[1], r[2], b.m, a.e - b.e - (MantBits - 1))
         ELSE LET r == LongDiv(0, a.m, b.m, MantBits)
              IN  RoundEven(r[1], r[2], b.m, a.e - b.e - MantBits)

\* a * 1000.0 (1000 = 125 * 2^3; m * 125 < 2^31)
F32Mul1000(a) ==
    IF a.k # "fin" THEN a
    ELSE IF a.m = 0 THEN F32Zero
    ELSE LET p == a.m * 125
             s == BitLen(p) - MantBits
         IN  RoundEven(p \div Pow2(s), p % Pow2(s), Pow2(s), a.e + 3 + s)

\* f32::round: nearest integer, halves away from zero
F32Round(a) ==
    IF a.k # "fin" \/ a.m = 0 \/ a.e >= 0 THEN a
    ELSE IF -a.e > MantBits THEN F32Zero
    ELSE LET d == Pow2(-a.e)
             q == a.m \div d
             r == a.m % d
         IN  IntAsF32(IF 2 * r >= d THEN q + 1 ELSE q)

\* `as u32`: truncating and saturating, NaN becomes 0
F32AsU32(a) ==
    IF a.k = "nan" THEN Cents(0)
    ELSE IF a.k = "inf" THEN U32_MAX
    ELSE IF a.m = 0 THEN Cents(0)
    ELSE IF a.e > 8 THEN U32_MAX
    ELSE IF a.e >= 0
         THEN LET d == Pow2(16 - a.e)
              IN  <<a.m \div d, (a.m % d) * Pow2(a.e)>>
    ELSE IF -a.e >= MantBits THEN Cents(0)
    ELSE Cents(a.m \div Pow2(-a.e))

\* product.rs line 37
PricePerKg(price, weight) ==
    F32AsU32(F32Round(F32Mul1000(F32Div(U32AsF32(price), U16AsF32(weight)))))


(***************************************************************************)
(* Open-set enumerations.  A value is a known variant or Other(payload).   *)
(***************************************************************************)
MaterialVariants ==
    {"PLA", "PLAPlus", "ABS", "PETG", "TPU", "Nylon", "PC", "ASA", "Unspecified"}

Known(v) == [variant |-> v]

Other(raw) == [variant |-> "Other", payload |-> raw]

\* Result::Ok(v), and unwrap, which panics on an Err
OkV(v) == [ok |-> TRUE, value |-> v]

Panic == [panic |-> TRUE]

unwrap(r) == IF r.ok THEN r.value ELSE Panic

\* impl FromStr for FilamentMaterial
MaterialFromStr(s) ==
    OkV(CASE s = "PLA" -> Known("PLA")
          [] s = "PLAPlus" -> Known("PLAPlus")
          [] s = "ABS" -> Known("ABS")
          [] s = "PETG" -> Known("PETG")
          [] s = "TPU" -> Known("TPU")
          [] s = "Nylon" -> Known("Nylon")
          [] s = "PC" -> Known("PC")
          [] s = "ASA" -> Known("ASA")
          [] s = "Unspecified" -> Known("Unspecified")
          [] OTHER -> Other(s))

\* MaterialDisplay writing a form for PLAPlus that from_str does not match
MaterialDisplayHyphen(m) ==
    CASE m = Known("PLA") -> "PLA"
      [] m = Known("PLAPlus") -> "PLA-Plus"
      [] m = Known("ABS") -> "ABS"
      [] m = Known("PETG") -> "PETG"
      [] m = Known("TPU") -> "TPU"
      [] m = Known("Nylon") -> "Nylon"
      [] m = Known("PC") -> "PC"
      [] m = Known("ASA") -> "ASA"
      [] m = Known("Unspecified") -> "Unspecified"
      [] OTHER -> m.payload

\* impl Display for FilamentMaterial
MaterialDisplay(m) ==
    CASE m = Known("PLA") -> "PLA"
      [] m = Known("PLAPlus") -> "PLAPlus"
      [] m = Known("ABS") -> "ABS"
      [] m = Known("PETG") -> "PETG"
      [] m = Known("TPU") -> "TPU"
      [] m = Known("Nylon") -> "Nylon"
      [] m = Known("PC") -> "PC"
      [] m = Known("ASA") -> "ASA"
      [] m = Known("Unspecified") -> "Unspecified"
      [] OTHER -> m.payload

\* impl From<String> for FilamentMaterial: from_str(&s).unwrap()
MaterialFromString(s) == unwrap(MaterialFromStr(s))

\* impl From<FilamentMaterial> for String: m.to_string()
MaterialIntoString(m) == MaterialDisplay(m)

\* impl FromStr for Retailer
RetailerFromStr(s) ==
    OkV(CASE s = "Amazon" -> Known("Amazon")
          [] OTHER -> Other(s))

\* impl Display for Retailer
RetailerDisplay(r) ==
    CASE r = Known("Amazon") -> "Amazon"
      [] OTHER -> r.payload

\* impl From<String> for Retailer: from_str(&s).unwrap()
RetailerFromString(s) == unwrap(RetailerFromStr(s))

\* impl From<Retailer> for String: p.to_string()
RetailerIntoString(r) == RetailerDisplay(r)

\* impl From<FilamentDiameter> for u16
DiameterIntoU16(d) ==
    CASE d = Known("D175") -> 175
      [] d = Known("D285") -> 285
      [] OTHER -> d.payload

\* DiameterTryFromU16 with the 285 arm naming the wrong variant
DiameterTryFromU16WrongArm(v) ==
    OkV(CASE v = 175 -> Known("D175")
          [] v = 285 -> Known("D175")
          [] OTHER -> Other(v))

\* impl TryFrom<u16> for FilamentDiameter
DiameterTryFromU16(v) ==
    OkV(CASE v = 175 -> Known("D175")
          [] v = 285 -> Known("D285")
          [] OTHER -> Other(v))

\* the three families, encoded and decoded as serde does
\* (into = "String" / "u16", try_from = "String" / "u16")
Families == {"FilamentMaterial", "Retailer", "FilamentDiameter"}

Encode(fam, v) ==
    CASE fam = "FilamentMaterial" -> MaterialIntoString(v)
      [] fam = "Retailer" -> RetailerIntoString(v)
      [] fam = "FilamentDiameter" -> DiameterIntoU16(v)

Decode(fam, raw) ==
    CASE fam = "FilamentMaterial" -> MaterialFromString(raw)
      [] fam = "Retailer" -> RetailerFromString(raw)
      [] fam = "FilamentDiameter" -> unwrap(DiameterTryFromU16(raw))

\* raw forms and values the codec is exercised on
MaxRawDiameter == 300

U16_MAX == 65535

RawStrings ==
    MaterialVariants \cup
    {"Amazon", "Carbon-Fiber-PLA", "Prusa", "pla", "PLA+", "PLA-Plus", "amazon",
     "Other", ""}

Raws(fam) ==
    IF fam = "FilamentDiameter" THEN (0..MaxRawDiameter) \cup {U16_MAX}
    ELSE RawStrings

KnownValues(fam) ==
    CASE fam = "FilamentMaterial" -> { Known(v) : v \in MaterialVariants }
      [] fam = "Retailer" -> {Known("Amazon")}
      [] fam = "FilamentDiameter" -> {Known("D175"), Known("D285")}

Values(fam) == KnownValues(fam) \cup { Other(raw) : raw \in Raws(fam) }

(***************************************************************************)
(* Records and projections.                                                *)
(***************************************************************************)
MaxUuid == 2

MaxCallers == 2

MaxOps == 2

\* identities SsUuid::new() can mint
Uuids == 1..MaxUuid

Callers == 1..MaxCallers

NoValue == [none |-> TRUE]

\* creation requests (struct ProductRequest) the callers submit
Requests ==
    { [name |-> "PLA Basic 1kg", price |-> Cents(2000), url |-> "https://a.example/1",
       material |-> Known("PLA"), diameter |-> Known("D175"), weight |-> Grams(1000),
       retailer |-> Known("Amazon"), retailer_product_id |-> "B0A1", color |-> "Black"],
      [name |-> "CF sample", price |-> Cents(163), url |-> "https://p.example/2",
       material |-> Other("Carbon-Fiber-PLA"), diameter |-> Other(300), weight |-> Grams(80),
       retailer |-> Other("Prusa"), retailer_product_id |-> "P-2", color |-> "Grey"],
      [name |-> "", price |-> Cents(0), url |-> "",
       material |-> Known("Unspecified"), diameter |-> Known("D285"), weight |-> Grams(0),
       retailer |-> Other(""), retailer_product_id |-> "", color |-> ""] }

\* prices and weights an update sets
UpdPrices == {Cents(2999)}

UpdWeights == {Grams(1000), Grams(0)}

\* FromRequest seeding the derived field from the request's price
FromRequestSeeded(request, uuid) ==
    [uuid |-> uuid,
     name |-> request.name,
     price |-> request.price,
     price_per_kg |-> request.price,
     url |-> request.url,
     material |-> request.material,
     diameter |-> request.diameter,
     weight |-> request.weight,
     retailer |-> request.retailer,
     retailer_product_id |-> request.retailer_product_id,
     color |-> request.color]

\* impl From<ProductRequest> for Product; uuid is the value SsUuid::new() returned
FromRequest(request, uuid) ==
    [uuid |-> uuid,
     name |-> request.name,
     price |-> request.price,
     price_per_kg |-> Cents(0),
     url |-> request.url,
     material |-> request.material,
     diameter |-> request.diameter,
     weight |-> request.weight,
     retailer |-> request.retailer,
     retailer_product_id |-> request.retailer_product_id,
     color |-> request.color]

\* SsUuid::to_uuid_string: the canonical text of an identity
to_uuid_string(uuid) == <<"uuid", uuid>>

\* impl From<Product> for ProductResponse
ToResponse(product) ==
    [uuid |-> to_uuid_string(product.uuid),
     name |-> product.name,
     price |-> product.price,
     price_per_kg |-> product.price_per_kg,
     url |-> product.url,
     material |-> product.material,
     diameter |-> product.diameter,
     weight |-> product.weight,
     retailer |-> product.retailer,
     retailer_product_id |-> product.retailer_product_id,
     color |-> product.color]

(***************************************************************************)
(* Results and errors.  SurrealSocketError is built by `?` from a String,  *)
(* a serde_json::Error or a surrealdb::Error; it carries the cause only.   *)
(***************************************************************************)
Ok == [ok |-> TRUE]

Err(e) == [ok |-> FALSE, error |-> e]

SurrealSocketError(cause) == [message |-> cause]

\* causes a surrealdb call can fail with
StoreErrors == {"connection closed"}

SerdeError == "uuid serialization failed"

EnvVars ==
    {"SURREAL_ADDRESS", "SURREAL_USERNAME", "SURREAL_PASSWORD",
     "SURREAL_NAMESPACE", "SURREAL_DATABASE"}

\* process environments: everything set, or one variable missing
Envs == {EnvVars, EnvVars \ {"SURREAL_DATABASE"}}

\* outcome of the network steps of surrealdb_client: all succeed, or the
\* named one is the first to fail
NetOutcomes == {"ok", "signin"}

\* lib.rs surrealdb_client
surrealdb_client(env, net) ==
    IF "SURREAL_ADDRESS" \notin env
      THEN Err("SURREAL_ADDRESS environment variable not set")
    ELSE IF "SURREAL_USERNAME" \notin env
      THEN Err("SURREAL_USERNAME environment variable not set")
    ELSE IF "SURREAL_PASSWORD" \notin env
      THEN Err("SURREAL_PASSWORD environment variable not set")
    ELSE IF "SURREAL_NAMESPACE" \notin env
      THEN Err("SURREAL_NAMESPACE environment variable not set")
    ELSE IF "SURREAL_DATABASE" \notin env
      THEN Err("SURREAL_DATABASE environment variable not set")
    ELSE IF net = "new" THEN Err("Error connecting to SurrealDB: ")
    ELSE IF net = "signin" THEN Err("Error signing in to SurrealDB: ")
    ELSE IF net = "use_db" THEN Err("Error using namespace/database: ")
    ELSE Ok

TABLE_NAME == "products"

UUID_FIELD == "uuid"

\* UpdateQuery sending the record's own price_per_kg field instead of the
\* recomputed value
UpdateQueryStale(product) ==
    [table |-> TABLE_NAME,
     set |-> "price_per_kg",
     value |-> product.price_per_kg,
     where |-> UUID_FIELD,
     equals |-> product.uuid]

\* the statement post_update_hook formats (lines 40-48)
UpdateQuery(product) ==
    [table |-> TABLE_NAME,
     set |-> "price_per_kg",
     value |-> PricePerKg(product.price, product.weight),
     where |-> UUID_FIELD,
     equals |-> product.uuid]

\* ApplyUpdate with the WHERE clause lost: every row is updated
ApplyUpdateAll(table, q) ==
    [u \in DOMAIN table |-> [table[u] EXCEPT !.price_per_kg = q.value]]

\* effect on the table of UPDATE t SET price_per_kg = v WHERE uuid = id
ApplyUpdate(table, q) ==
    [u \in DOMAIN table |->
        IF table[u].uuid = q.equals
        THEN [table[u] EXCEPT !.price_per_kg = q.value]
        ELSE table[u]]

\* QueryResult with the query's error dropped
QueryResultSwallow(outcome) == Ok

\* what post_update_hook returns for the outcome of client.query (line 50-51)
QueryResult(outcome) ==
    IF outcome = "ok" THEN Ok ELSE Err(SurrealSocketError(outcome))

(***************************************************************************)
(* State.                                                                  *)
(***************************************************************************)
VARIABLES
    store,       \* the products table: identity -> stored Product
    pc,          \* per caller: idle, persist, hook, query, done
    self,        \* per caller: the Product it writes (the hook's &self)
    query,       \* per caller: the UPDATE statement the hook built
    result,      \* per caller: what the write reported
    minted,      \* identities SsUuid::new() has returned
    ops,         \* writes started
    req,         \* per caller: the request a creation came from
    failedAt,    \* per caller: the step that failed: none, persist, patch
    patchFailed, \* some hook has failed
    lastPatch,   \* per identity: the &self of the last hook whose patch succeeded
    lastWriter,  \* per identity: the caller that last changed the stored record
    codec        \* an enumeration value or raw form being encoded and decoded

vars == <<store, pc, self, query, result, minted, ops, req, failedAt,
          patchFailed, lastPatch, lastWriter, codec>>

mainVars == <<store, pc, self, query, result, minted, ops, req, failedAt,
              patchFailed, lastPatch, lastWriter>>

Init ==
    /\ store = <<>>
    /\ pc = [c \in Callers |-> "idle"]
    /\ self = [c \in Callers |-> NoValue]
    /\ query = [c \in Callers |-> NoValue]
    /\ result = [c \in Callers |-> NoValue]
    /\ minted = {}
    /\ ops = 0
    /\ req = [c \in Callers |-> NoValue]
    /\ failedAt = [c \in Callers |-> "none"]
    /\ patchFailed = FALSE
    /\ lastPatch = [u \in Uuids |-> NoValue]
    /\ lastWriter = [u \in Uuids |-> 0]
    /\ codec = NoValue

\* SsUuid::new(): an identity never returned before; identities are numbered
\* in the order they are minted (none when the model's supply is used up)
NewUuid(used) ==
    { u \in Uuids \ used : \A v \in Uuids \ used : u <= v }

\* a caller turns a creation request into a Product
CreateProduct(c) ==
    /\ pc[c] = "idle"
    /\ ops < MaxOps
    /\ \E request \in Requests, uuid \in NewUuid(minted) :
          /\ self' = [self EXCEPT ![c] = FromRequest(request, uuid)]
          /\ req' = [req EXCEPT ![c] = request]
          /\ minted' = minted \cup {uuid}
    /\ pc' = [pc EXCEPT ![c] = "persist"]
    /\ ops' = ops + 1
    /\ UNCHANGED <<store, query, result, failedAt, patchFailed, lastPatch,
                   lastWriter, codec>>

\* a caller loads a stored Product and changes its price and weight
UpdateProduct(c) ==
    /\ pc[c] = "idle"
    /\ ops < MaxOps
    /\ \E uuid \in DOMAIN store, price \in UpdPrices, weight \in UpdWeights :
          self' = [self EXCEPT ![c] =
                      [store[uuid] EXCEPT !.price = price, !.weight = weight]]
    /\ pc' = [pc EXCEPT ![c] = "persist"]
    /\ ops' = ops + 1
    /\ UNCHANGED <<store, query, result, minted, req, failedAt, patchFailed,
                   lastPatch, lastWriter, codec>>

\* the store persists the caller's record, or fails to
Persist(c) ==
    /\ pc[c] = "persist"
    /\ \/ /\ store' = [u \in DOMAIN store \cup {self[c].uuid} |->
                          IF u = self[c].uuid THEN self[c] ELSE store[u]]
          /\ lastWriter' = [lastWriter EXCEPT ![self[c].uuid] = c]
          /\ pc' = [pc EXCEPT ![c] = "hook"]
          /\ UNCHANGED <<result, failedAt>>
       \/ /\ \E e \in StoreErrors :
                result' = [result EXCEPT ![c] = Err(SurrealSocketError(e))]
          /\ failedAt' = [failedAt EXCEPT ![c] = "persist"]
          /\ pc' = [pc EXCEPT ![c] = "done"]
          /\ UNCHANGED <<store, lastWriter>>
    /\ UNCHANGED <<self, query, minted, ops, req, patchFailed, lastPatch, codec>>

\* post_update_hook, lines 37-48: compute, obtain the client, format the query
HookPrepare(c) ==
    /\ pc[c] = "hook"
    /\ \E env \in Envs, net \in NetOutcomes, ser \in {"ok", "err"} :
          LET client == surrealdb_client(env, net)
          IN  IF ~client.ok
              THEN /\ result' = [result EXCEPT ![c] = Err(SurrealSocketError(client.error))]
                   /\ failedAt' = [failedAt EXCEPT ![c] = "patch"]
                   /\ patchFailed' = TRUE
                   /\ pc' = [pc EXCEPT ![c] = "done"]
                   /\ UNCHANGED query
              ELSE IF ser = "err"
              THEN /\ result' = [result EXCEPT ![c] = Err(SurrealSocketError(SerdeError))]
                   /\ failedAt' = [failedAt EXCEPT ![c] = "patch"]
                   /\ patchFailed' = TRUE
                   /\ pc' = [pc EXCEPT ![c] = "done"]
                   /\ UNCHANGED query
              ELSE /\ query' = [query EXCEPT ![c] = UpdateQuery(self[c])]
                   /\ pc' = [pc EXCEPT ![c] = "query"]
                   /\ UNCHANGED <<result, failedAt, patchFailed>>
    /\ UNCHANGED <<store, self, minted, ops, req, lastPatch, lastWriter, codec>>

\* post_update_hook, lines 50-51: run the query and return
HookQuery(c) ==
    /\ pc[c] = "query"
    /\ \E outcome \in {"ok"} \cup StoreErrors :
          /\ result' = [result EXCEPT ![c] = QueryResult(outcome)]
          /\ IF outcome = "ok"
             THEN /\ store' = ApplyUpdate(store, query[c])
                  /\ lastPatch' = [lastPatch EXCEPT ![self[c].uuid] = self[c]]
                  /\ lastWriter' = [lastWriter EXCEPT ![self[c].uuid] = c]
                  /\ UNCHANGED <<failedAt, patchFailed>>
             ELSE /\ failedAt' = [failedAt EXCEPT ![c] = "patch"]
                  /\ patchFailed' = TRUE
                  /\ UNCHANGED <<store, lastPatch, lastWriter>>
    /\ pc' = [pc EXCEPT ![c] = "done"]
    /\ UNCHANGED <<self, query, minted, ops, req, codec>>

\* the caller takes the result; its locals are dropped
Return(c) ==
    /\ pc[c] = "done"
    /\ pc' = [pc EXCEPT ![c] = "idle"]
    /\ self' = [self EXCEPT ![c] = NoValue]
    /\ query' = [query EXCEPT ![c] = NoValue]
    /\ result' = [result EXCEPT ![c] = NoValue]
    /\ req' = [req EXCEPT ![c] = NoValue]
    /\ failedAt' = [failedAt EXCEPT ![c] = "none"]
    /\ UNCHANGED <<store, minted, ops, patchFailed, lastPatch, lastWriter, codec>>

(***************************************************************************)
(* The codec on its own: a value encoded then decoded, or a raw form       *)
(* decoded then encoded.                                                   *)
(***************************************************************************)
CodecInputs ==
    UNION { { [fam |-> fam, dir |-> "value", pc |-> "start", input |-> v,
               mid |-> NoValue, out |-> NoValue] : v \in Values(fam) }
            \cup
            { [fam |-> fam, dir |-> "raw", pc |-> "start", input |-> r,
               mid |-> NoValue, out |-> NoValue] : r \in Raws(fam) }
          : fam \in Families }

InitCodec ==
    /\ store = <<>>
    /\ pc = [c \in Callers |-> "idle"]
    /\ self = [c \in Callers |-> NoValue]
    /\ query = [c \in Callers |-> NoValue]
    /\ result = [c \in Callers |-> NoValue]
    /\ minted = {}
    /\ ops = 0
    /\ req = [c \in Callers |-> NoValue]
    /\ failedAt = [c \in Callers |-> "none"]
    /\ patchFailed = FALSE
    /\ lastPatch = [u \in Uuids |-> NoValue]
    /\ lastWriter = [u \in Uuids |-> 0]
    /\ codec \in CodecInputs

CodecEncode ==
    /\ \/ /\ codec.dir = "value" /\ codec.pc = "start"
          /\ codec' = [codec EXCEPT !.mid = Encode(codec.fam, codec.input),
                                    !.pc = "mid"]
       \/ /\ codec.dir = "raw" /\ codec.pc = "mid"
          /\ codec.mid # Panic
          /\ codec' = [codec EXCEPT !.out = Encode(codec.fam, codec.mid),
                                    !.pc = "end"]
    /\ UNCHANGED mainVars

CodecDecode ==
    /\ \/ /\ codec.dir = "raw" /\ codec.pc = "start"
          /\ codec' = [codec EXCEPT !.mid = Decode(codec.fam, codec.input),
                                    !.pc = "mid"]
       \/ /\ codec.dir = "value" /\ codec.pc = "mid"
          /\ codec' = [codec EXCEPT !.out = Decode(codec.fam, codec.mid),
                                    !.pc = "end"]
    /\ UNCHANGED mainVars

NextCodec == CodecEncode \/ CodecDecode

SpecCodec == InitCodec /\ [][NextCodec]_vars

Next ==
    \/ \E c \in Callers : CreateProduct(c)
    \/ \E c \in Callers : UpdateProduct(c)
    \/ \E c \in Callers : Persist(c)
    \/ \E c \in Callers : HookPrepare(c)
    \/ \E c \in Callers : HookQuery(c)
    \/ \E c \in Callers : Return(c)

Spec == Init /\ [][Next]_vars

(***************************************************************************)
(* Properties.                                                             *)
(***************************************************************************)
Quiescent == \A c \in Callers : pc[c] = "idle"

CentsValue(c) == c[1] * Limb + c[2]

\* price * 1000 / weight rounded to the nearest integer, halves up
ExactPricePerKg(price, weight) ==
    Cents((2000 * CentsValue(price) + weight) \div (2 * weight))

\* C1 as stated: with no write-then-patch sequence in flight and no failed
\* patch, every stored record's price_per_kg is the value the hook derives
\* from that stored record's own price and weight (weight > 0).
C1_StoredDerivedFromStored ==
    (Quiescent /\ ~patchFailed) =>
        \A u \in DOMAIN store :
            store[u].weight > 0 =>
                store[u].price_per_kg = PricePerKg(store[u].price, store[u].weight)

\* C1 amended: with no sequence in flight and no failed patch, every stored
\* record's price_per_kg is the value the hook derives from the price and
\* weight of the record held by the caller whose patch on that identity
\* completed last (weight > 0): the last patch wins.
C1_LastPatchWins ==
    (Quiescent /\ ~patchFailed) =>
        \A u \in DOMAIN store :
            /\ lastPatch[u] # NoValue
            /\ lastPatch[u].weight > 0 =>
                  store[u].price_per_kg =
                      PricePerKg(lastPatch[u].price, lastPatch[u].weight)

C1_Witness ==
    /\ Quiescent /\ ~patchFailed
    /\ \E u \in DOMAIN store :
          /\ lastPatch[u] # NoValue
          /\ lastPatch[u].weight > 0
          /\ store[u].weight > 0
          /\ lastPatch[u].price # store[u].price
          /\ store[u].price_per_kg # PricePerKg(store[u].price, store[u].weight)

\* C3: when the persist succeeded and the hook then failed (client, uuid
\* serialization or UPDATE query), the caller gets an error, the failing
\* step leaves the table as it was, and the stored record exists, equal to
\* what this caller persisted as long as no other caller has written to it
\* since, with price_per_kg zero for a record just created from a request.
C3_FailedPatchState ==
    \A c \in Callers :
        (pc[c] = "done" /\ failedAt[c] = "patch") =>
            /\ result[c].ok = FALSE
            /\ self[c].uuid \in DOMAIN store
            /\ lastWriter[self[c].uuid] = c =>
                  /\ store[self[c].uuid] = self[c]
                  /\ req[c] # NoValue =>
                        store[self[c].uuid].price_per_kg = Cents(0)

C3_FailedPatchStep ==
    \A c \in Callers :
        (pc[c] \in {"hook", "query"} /\ failedAt'[c] = "patch") => store' = store

C3_PatchFailureKeepsRecord ==
    []C3_FailedPatchState /\ [][C3_FailedPatchStep]_vars

C3_Witness ==
    \E c \in Callers :
        /\ pc[c] = "done" /\ failedAt[c] = "patch"
        /\ query[c] # NoValue
        /\ req[c] # NoValue
        /\ lastWriter[self[c].uuid] = c
        /\ store[self[c].uuid].price_per_kg = Cents(0)
        /\ self[c].weight > 0

\* canonical raw forms of the known variants of a family
CanonicalForms(fam) ==
    CASE fam = "FilamentMaterial" -> MaterialVariants
      [] fam = "Retailer" -> {"Amazon"}
      [] fam = "FilamentDiameter" -> {175, 285}

\* C4 as stated: every value, Other(raw) with any raw included, is equal
\* to the decoding of its encoding.
C4_RoundTripAnyValue ==
    (codec.dir = "value" /\ codec.pc = "end") => codec.out = codec.input

\* C4 amended: every known variant, and every Other(raw) whose raw is not
\* the canonical form of a known variant of the family, is equal to the
\* decoding of its encoding.
C4_RoundTripCanonicalValue ==
    (/\ codec.dir = "value" /\ codec.pc = "end"
     /\ codec.input.variant = "Other" =>
            codec.input.payload \notin CanonicalForms(codec.fam))
        => codec.out = codec.input

C4_Witness ==
    /\ codec.dir = "value" /\ codec.pc = "end"
    /\ codec.fam = "FilamentMaterial"
    /\ codec.input = Other("Carbon-Fiber-PLA")
    /\ codec.mid = "Carbon-Fiber-PLA"
    /\ codec.out = codec.input

\* C5: decoding any raw form succeeds, and encoding the decoded value gives
\* the raw form back.
C5_RoundTripAnyRaw ==
    (codec.dir = "raw" /\ codec.pc # "start") =>
        /\ codec.mid # Panic
        /\ codec.pc = "end" => codec.out = codec.input

C5_Witness ==
    /\ codec.dir = "raw" /\ codec.pc = "end"
    /\ codec.fam = "FilamentMaterial"
    /\ codec.input = "Carbon-Fiber-PLA"
    /\ codec.mid = Other("Carbon-Fiber-PLA")
    /\ codec.out = "Carbon-Fiber-PLA"

\* C6 as stated: for weight > 0 the value the hook sends for price_per_kg
\* is price * 1000 / weight rounded to the nearest integer.
C6_HookValueExact ==
    \A c \in Callers :
        (pc[c] = "query" /\ self[c].weight > 0) =>
            query[c].value = ExactPricePerKg(self[c].price, self[c].weight)

\* C7 as stated: for weight = 0 the value the hook sends for price_per_kg
\* is the sentinel 0.
C7_ZeroWeightSentinel ==
    \A c \in Callers :
        (pc[c] = "query" /\ self[c].weight = 0) => query[c].value = Cents(0)

\* C8: the Product made from a request has price_per_kg = Cents(0) and
\* every other field as the request has it, whatever the request holds.
C8_FromRequest ==
    \A c \in Callers :
        (req[c] # NoValue /\ pc[c] = "persist") =>
            /\ self[c].price_per_kg = Cents(0)
            /\ self[c].name = req[c].name
            /\ self[c].price = req[c].price
            /\ self[c].url = req[c].url
            /\ self[c].material = req[c].material
            /\ self[c].diameter = req[c].diameter
            /\ self[c].weight = req[c].weight
            /\ self[c].retailer = req[c].retailer
            /\ self[c].retailer_product_id = req[c].retailer_product_id
            /\ self[c].color = req[c].color

C8_Witness ==
    \E c, d \in Callers :
        /\ req[c] # NoValue /\ pc[c] = "persist"
        /\ req[c].weight = Grams(0) /\ req[c].price = Cents(0)
        /\ req[d] # NoValue /\ pc[d] = "persist"
        /\ req[d].price = Cents(2000)

\* C9: a successful patch changes price_per_kg of the stored records whose
\* uuid is the hooked record's and nothing else, and no step changes the
\* identity, or the identity string of the response, of a stored record.
C9_PatchStep ==
    \A c \in Callers :
        (pc[c] = "query" /\ pc'[c] = "done" /\ result'[c] = Ok) =>
            /\ DOMAIN store' = DOMAIN store
            /\ \A u \in DOMAIN store :
                  IF store[u].uuid = self[c].uuid
                  THEN store'[u] =
                         [store[u] EXCEPT !.price_per_kg = store'[u].price_per_kg]
                  ELSE store'[u] = store[u]

C9_IdentityStep ==
    \A u \in DOMAIN store :
        /\ u \in DOMAIN store'
        /\ store'[u].uuid = store[u].uuid
        /\ ToResponse(store'[u]).uuid = ToResponse(store[u]).uuid

C9_PatchFrame == [][C9_PatchStep /\ C9_IdentityStep]_vars

C9_Witness ==
    /\ Cardinality(DOMAIN store) = 2
    /\ \E u, v \in DOMAIN store :
          /\ u # v
          /\ lastPatch[u] # NoValue
          /\ store[u].price_per_kg # Cents(0)
          /\ lastPatch[v] = NoValue
          /\ store[v].price_per_kg = Cents(0)
          /\ store[v].weight > 0

\* C10 as stated: the error a caller gets when the patch fails after a
\* successful persist differs from the error a caller gets when the persist
\* itself fails.
C10_FailuresDistinguishable ==
    \A c, d \in Callers :
        (/\ pc[c] = "done" /\ failedAt[c] = "patch"
         /\ pc[d] = "done" /\ failedAt[d] = "persist")
            => result[c] # result[d]

====
